---- MODULE Spec2Model ----
(***************************************************************************)
(* Model of src/Server.cpp: the RTSP test server's main sequence           *)
(* (logger, signal handlers, configuration loading, server construction,   *)
(* mount-point registration, event loop) and its signal handler.           *)
(*                                                                         *)
(* The main sequence is a program counter pc over the statements of main() *)
(* and LoadConfig().  SignalHandler runs on the main thread, between two   *)
(* steps of the main sequence, as one atomic action.  A Log-> call of the  *)
(* main sequence takes two steps (BeginLog, then the step that completes   *)
(* the write), so that a signal can be delivered inside it.  The variable  *)
(* log records the calls made on the logger, in order; an entry written by *)
(* the handler while a write of the main sequence is in progress is marked *)
(* reentrant: the sink is single-threaded (stdout_sink_st) and not         *)
(* reentrant, so what such a call puts on standard output is undefined.    *)
(***************************************************************************)
EXTENDS Integers, Sequences, FiniteSets, TLC

(* ---- bounds of the model ---- *)
MaxDirs == 3
MaxSignals == 2

(* ---- program constants ---- *)
DefaultPort == 9554
PortLimit == 65535
Uint16Mod == 65536

SIGINT == 2
SIGILL == 4
SIGABRT == 6
SIGBUS == 7
SIGFPE == 8
SIGSEGV == 11
SIGTERM == 15

CrashSignals == {SIGSEGV, SIGABRT, SIGFPE, SIGBUS, SIGILL}
TermSignals == {SIGINT, SIGTERM}
Signals == CrashSignals \cup TermSignals

h264PipelineTemplate ==
  << "( videotestsrc pattern=", "{}",
     " ! timeoverlay ! x264enc ! video/x-h264, profile=baseline ! rtph264pay name=pay0 pt=96 config-interval=-1 audiotestsrc ! alawenc ! rtppcmapay name=pay1 pt=8 )" >>

vp8PipelineTemplate ==
  << "( videotestsrc pattern=", "{}",
     " ! timeoverlay ! vp8enc ! rtpvp8pay name=pay0 pt=96 audiotestsrc ! opusenc ! rtpopuspay name=pay1 pt=97 )" >>

(* the catalog compiled into main() *)
TestCatalog == << [first |-> "test", second |-> "smpte"] >>

(* the compiled catalog, catalogs with entries the source keeps commented  *)
(* out enabled as well, and one whose second name is the first name        *)
(* followed by "-vp8"                                                      *)
Catalogs ==
  { TestCatalog,
    << [first |-> "bars", second |-> "smpte100"], [first |-> "test", second |-> "smpte"] >>,
    << [first |-> "white", second |-> "white"], [first |-> "black", second |-> "black"],
       [first |-> "test", second |-> "smpte"] >>,
    << [first |-> "test", second |-> "smpte"], [first |-> "test-vp8", second |-> "ball"] >> }

(* ---- configuration directories: what a directory holds ---- *)
Missing == [kind |-> "missing", port |-> 0]
Malformed == [kind |-> "malformed", port |-> 0]
NoPort == [kind |-> "noport", port |-> 0]
WithPort(n) == [kind |-> "port", port |-> n]

PortValues == {-1, 0, 1, 1000, 2000, 65534, 65535, 65536, 70000}
FileKinds == {Missing, Malformed, NoPort} \cup {WithPort(n) : n \in PortValues}

DirLists == UNION {[1..n -> FileKinds] : n \in 0..MaxDirs}

(* the directory lists of the whole-program specification: one that ends   *)
(* in the commit, with a valid and an invalid port, and one that ends in   *)
(* the failure return                                                      *)
LifecycleDirs ==
  { << WithPort(2000), WithPort(70000) >>,
    << Malformed >> }

(* ---- pure helpers ---- *)

(* int -> uint16_t conversion of the assignment loadedConfig.port = port *)
ToUint16(n) == n % Uint16Mod

(* mutant: the upper limit of the range test is missing *)
PortInRange_NoUpper(port) == port > 0

(* the range test of LoadConfig *)
PortInRange(port) == port > 0 /\ port < PortLimit

(* std::to_string of an unsigned value: its decimal digits *)
RECURSIVE to_string(_)
to_string(n) == IF n < 10 THEN <<n>> ELSE Append(to_string(n \div 10), n % 10)

(* the service string parsed back to a port number when the server binds *)
RECURSIVE ParseService(_)
ParseService(s) ==
  IF Len(s) = 0 THEN 0
  ELSE ParseService(SubSeq(s, 1, Len(s) - 1)) * 10 + s[Len(s)]

(* fmt::format(template, arg) for a template with "{}" fields *)
RECURSIVE Format(_, _)
Format(tpl, arg) ==
  IF Len(tpl) = 0 THEN ""
  ELSE (IF Head(tpl) = "{}" THEN arg ELSE Head(tpl)) \o Format(Tail(tpl), arg)

H264Path(mountPoint) == "/" \o mountPoint.first

(* mutant: the VP8 path lacks its suffix *)
Vp8Path_NoSuffix(mountPoint) == "/" \o mountPoint.first

Vp8Path(mountPoint) == ("/" \o mountPoint.first) \o "-vp8"

Factory(path, launch) ==
  [path |-> path, launch |-> launch, transport |-> "PLAY", shared |-> TRUE]

(* gst_rtsp_mount_points_add_factory: a factory already registered under   *)
(* the path is removed, then the new one is added                          *)
add_factory(reg, path, factory) ==
  Append(SelectSeq(reg, LAMBDA f : f.path # path), factory)

Entry(level, msg, arg, name, re) ==
  [level |-> level, msg |-> msg, arg |-> arg, name |-> name, reentrant |-> re]

VARIABLES
  pc,                \* position of the main sequence
  Log,               \* the logger handle is set
  g_mainLoop,        \* the event-loop handle is set
  handlers,          \* SignalHandler is installed for the seven signals
  is_running,        \* the GMainLoop's running flag
  configDirs,        \* what ::ConfigDirs() returns, with each directory's file
  createMountPoints, \* the stream catalog
  lcIdx,             \* LoadConfig: index of the directory being processed
  loadedConfig,      \* LoadConfig: port of the local copy
  config,            \* main: config.port
  server,            \* "unset", "null" or "ok"
  mountPoints,       \* "unset", "null" or "ok"
  service,           \* the service string set on the server
  serverMounts,      \* the registry set on the server: "unset", "null", "ok"
  registry,          \* factories of the mount-point registry, in insertion order
  regIdx,            \* index of the catalog loops of main
  boundPort,         \* the port the attached server listens on, 0 before
  log,               \* calls made on the logger
  mainInLog,         \* the main sequence is inside a Log-> call
  exitCode,          \* << >>, or <<value returned by main>> once pc = "exited"
  delivered          \* history: signals delivered, with the position they met

vars == << pc, Log, g_mainLoop, handlers, is_running, configDirs, createMountPoints,
           lcIdx, loadedConfig, config, server, mountPoints, service, serverMounts,
           registry, regIdx, boundPort, log, mainInLog, exitCode, delivered >>

cfgVars == << lcIdx, loadedConfig, config >>
srvVars == << server, mountPoints, service, serverMounts, registry, regIdx, boundPort >>
sigVars == << Log, g_mainLoop, handlers, is_running >>
inputVars == << configDirs, createMountPoints >>

InitWith(dirLists, catalogs) ==
  /\ pc = "InitLogger"
  /\ Log = FALSE
  /\ g_mainLoop = FALSE
  /\ handlers = FALSE
  /\ is_running = FALSE
  /\ configDirs \in dirLists
  /\ createMountPoints \in catalogs
  /\ lcIdx = 0
  /\ loadedConfig = 0
  /\ config = DefaultPort
  /\ server = "unset"
  /\ mountPoints = "unset"
  /\ service = << >>
  /\ serverMounts = "unset"
  /\ registry = << >>
  /\ regIdx = 0
  /\ boundPort = 0
  /\ log = << >>
  /\ mainInLog = FALSE
  /\ exitCode = << >>
  /\ delivered = << >>

Init == InitWith(LifecycleDirs, {TestCatalog})

InitConfig == InitWith(DirLists, {TestCatalog})

InitRegistration == InitWith(LifecycleDirs, Catalogs)

(* positions of the main sequence at which the next statement is a Log-> call *)
LogPcs ==
  { "log_starting", "lc_loading", "lc_fail", "lc_invalid", "fail_server", "fail_mounts",
    "log_started", "log_available", "log_stream_h264", "log_stream_vp8", "log_exit" }

(* the main sequence enters a Log-> call *)
BeginLog ==
  /\ pc \in LogPcs
  /\ ~mainInLog
  /\ mainInLog' = TRUE
  /\ UNCHANGED << pc, log, exitCode, delivered, cfgVars, srvVars, sigVars, inputVars >>

(* the main sequence completes a Log-> call *)
MainLog(level, msg, arg, name) ==
  /\ mainInLog
  /\ mainInLog' = FALSE
  /\ log' = Append(log, Entry(level, msg, arg, name, FALSE))

(* main: InitLogger() *)
InitLogger ==
  /\ pc = "InitLogger"
  /\ Log' = TRUE
  /\ pc' = "SetupSignalHandlers"
  /\ UNCHANGED << g_mainLoop, handlers, is_running, log, mainInLog, exitCode, delivered,
                  cfgVars, srvVars, inputVars >>

(* mutant: the call installs nothing *)
SetupSignalHandlers_NoInstall ==
  /\ pc = "SetupSignalHandlers"
  /\ pc' = "log_starting"
  /\ UNCHANGED << handlers, Log, g_mainLoop, is_running, log, mainInLog, exitCode, delivered,
                  cfgVars, srvVars, inputVars >>

(* main: SetupSignalHandlers() *)
SetupSignalHandlers ==
  /\ pc = "SetupSignalHandlers"
  /\ handlers' = TRUE
  /\ pc' = "log_starting"
  /\ UNCHANGED << Log, g_mainLoop, is_running, log, mainInLog, exitCode, delivered,
                  cfgVars, srvVars, inputVars >>

(* main: Log->info("=== RTSP Test Server starting ===") *)
LogStarting ==
  /\ pc = "log_starting"
  /\ MainLog("info", "starting", 0, "")
  /\ pc' = "lc_dirs"
  /\ UNCHANGED << exitCode, delivered, cfgVars, srvVars, sigVars, inputVars >>

(* ---- LoadConfig ---- *)

(* configDirs = ::ConfigDirs(); return if empty; loadedConfig = *config *)
LoadConfigBegin ==
  /\ pc = "lc_dirs"
  /\ IF Len(configDirs) = 0
       THEN /\ pc' = "server_new"
            /\ UNCHANGED << lcIdx, loadedConfig >>
       ELSE /\ pc' = "lc_test"
            /\ lcIdx' = 1
            /\ loadedConfig' = config
  /\ UNCHANGED << config, log, mainInLog, exitCode, delivered, srvVars, sigVars, inputVars >>

(* mutant: a missing file is not skipped *)
LoadConfigTest_NoSkip ==
  /\ pc = "lc_test"
  /\ IF lcIdx > Len(configDirs)
       THEN /\ pc' = "lc_commit"
            /\ UNCHANGED lcIdx
       ELSE /\ pc' = "lc_loading"
            /\ UNCHANGED lcIdx
  /\ UNCHANGED << loadedConfig, config, log, mainInLog, exitCode, delivered,
                  srvVars, sigVars, inputVars >>

(* head of the for loop and the g_file_test of its body *)
LoadConfigTest ==
  /\ pc = "lc_test"
  /\ IF lcIdx > Len(configDirs)
       THEN /\ pc' = "lc_commit"
            /\ UNCHANGED lcIdx
       ELSE IF configDirs[lcIdx].kind = "missing"
              THEN /\ pc' = "lc_test"
                   /\ lcIdx' = lcIdx + 1
              ELSE /\ pc' = "lc_loading"
                   /\ UNCHANGED lcIdx
  /\ UNCHANGED << loadedConfig, config, log, mainInLog, exitCode, delivered,
                  srvVars, sigVars, inputVars >>

(* Log->error("Loading config ...") *)
LoadConfigLoading ==
  /\ pc = "lc_loading"
  /\ MainLog("error", "loading_config", lcIdx, "")
  /\ pc' = "lc_read"
  /\ UNCHANGED << exitCode, delivered, cfgVars, srvVars, sigVars, inputVars >>

(* mutant: the first directory that supplies a port wins *)
LookupPort_FirstMatch(d, acc) ==
  IF d.kind = "port" /\ PortInRange(d.port) /\ acc = DefaultPort THEN ToUint16(d.port) ELSE acc

(* the accumulated port after the file of directory d was read successfully *)
LookupPort(d, acc) ==
  IF d.kind = "port" /\ PortInRange(d.port) THEN ToUint16(d.port) ELSE acc

(* mutant: an out-of-range port is stored all the same *)
LoadConfigRead_StoreInvalid ==
  /\ pc = "lc_read"
  /\ LET d == configDirs[lcIdx] IN
       IF d.kind = "malformed"
         THEN /\ pc' = "lc_fail"
              /\ UNCHANGED << lcIdx, loadedConfig >>
         ELSE /\ loadedConfig' = IF d.kind = "port" THEN ToUint16(d.port) ELSE loadedConfig
              /\ IF d.kind = "port" /\ ~PortInRange(d.port)
                   THEN /\ pc' = "lc_invalid"
                        /\ UNCHANGED lcIdx
                   ELSE /\ pc' = "lc_test"
                        /\ lcIdx' = lcIdx + 1
  /\ UNCHANGED << config, log, mainInLog, exitCode, delivered, srvVars, sigVars, inputVars >>

(* config_read_file, config_lookup_int and the range test *)
LoadConfigRead ==
  /\ pc = "lc_read"
  /\ LET d == configDirs[lcIdx] IN
       IF d.kind = "malformed"
         THEN /\ pc' = "lc_fail"
              /\ UNCHANGED << lcIdx, loadedConfig >>
         ELSE /\ loadedConfig' = LookupPort(d, loadedConfig)
              /\ IF d.kind = "port" /\ ~PortInRange(d.port)
                   THEN /\ pc' = "lc_invalid"
                        /\ UNCHANGED lcIdx
                   ELSE /\ pc' = "lc_test"
                        /\ lcIdx' = lcIdx + 1
  /\ UNCHANGED << config, log, mainInLog, exitCode, delivered, srvVars, sigVars, inputVars >>

(* mutant: a parse failure keeps what earlier directories supplied *)
LoadConfigFail_Commit ==
  /\ pc = "lc_fail"
  /\ MainLog("error", "fail_load_config", lcIdx, "")
  /\ pc' = "server_new"
  /\ config' = loadedConfig
  /\ UNCHANGED << lcIdx, loadedConfig, exitCode, delivered, srvVars, sigVars, inputVars >>

(* mutant: a parse failure goes on to the next directory *)
LoadConfigFail_Continue ==
  /\ pc = "lc_fail"
  /\ MainLog("error", "fail_load_config", lcIdx, "")
  /\ pc' = "lc_test"
  /\ lcIdx' = lcIdx + 1
  /\ UNCHANGED << loadedConfig, config, exitCode, delivered, srvVars, sigVars, inputVars >>

(* Log->error("Fail load config. ..."); return *)
LoadConfigFail ==
  /\ pc = "lc_fail"
  /\ MainLog("error", "fail_load_config", lcIdx, "")
  /\ pc' = "server_new"
  /\ UNCHANGED << exitCode, delivered, cfgVars, srvVars, sigVars, inputVars >>

(* Log->error("Invalid port value") *)
LoadConfigInvalid ==
  /\ pc = "lc_invalid"
  /\ MainLog("error", "invalid_port", lcIdx, "")
  /\ pc' = "lc_test"
  /\ lcIdx' = lcIdx + 1
  /\ UNCHANGED << loadedConfig, config, exitCode, delivered, srvVars, sigVars, inputVars >>

(* *config = loadedConfig *)
LoadConfigCommit ==
  /\ pc = "lc_commit"
  /\ config' = loadedConfig
  /\ pc' = "server_new"
  /\ UNCHANGED << lcIdx, loadedConfig, log, mainInLog, exitCode, delivered,
                  srvVars, sigVars, inputVars >>

LoadConfig ==
  \/ LoadConfigBegin
  \/ LoadConfigTest
  \/ LoadConfigLoading
  \/ LoadConfigRead
  \/ LoadConfigFail
  \/ LoadConfigInvalid
  \/ LoadConfigCommit

(* the start of main up to the return of LoadConfig, with no signal delivered *)
NextConfig ==
  \/ InitLogger
  \/ SetupSignalHandlers
  \/ BeginLog
  \/ LogStarting
  \/ LoadConfig

SpecConfig == InitConfig /\ [][NextConfig]_vars

(* ---- SignalHandler ---- *)

(* mutant: the termination branch does not stop the loop *)
SignalHandler_NoQuit(sig) ==
  IF sig \in CrashSignals
    THEN /\ log' = IF Log
                     THEN Append(log, Entry("critical", "crashed", sig, "", mainInLog))
                     ELSE log
         /\ pc' = "crashed"
         /\ UNCHANGED << is_running, Log, g_mainLoop, handlers, mainInLog, exitCode,
                         cfgVars, srvVars, inputVars >>
    ELSE /\ log' = IF Log
                     THEN Append(log, Entry("info", "shutting_down", sig, "", mainInLog))
                     ELSE log
         /\ UNCHANGED << pc, is_running, Log, g_mainLoop, handlers, mainInLog, exitCode,
                         cfgVars, srvVars, inputVars >>

(* mutant: the crash branch logs and returns without re-raising *)
SignalHandler_CrashReturns(sig) ==
  /\ log' = IF Log
              THEN Append(log, Entry(IF sig \in CrashSignals THEN "critical" ELSE "info",
                                     IF sig \in CrashSignals THEN "crashed" ELSE "shutting_down",
                                     sig, "", mainInLog))
              ELSE log
  /\ is_running' = IF sig \in TermSignals /\ g_mainLoop THEN FALSE ELSE is_running
  /\ UNCHANGED << pc, Log, g_mainLoop, handlers, mainInLog, exitCode,
                  cfgVars, srvVars, inputVars >>

(* mutant: the termination branch flips the loop's running flag *)
SignalHandler_Toggle(sig) ==
  IF sig \in CrashSignals
    THEN /\ log' = IF Log
                     THEN Append(log, Entry("critical", "crashed", sig, "", mainInLog))
                     ELSE log
         /\ pc' = "crashed"
         /\ UNCHANGED << is_running, Log, g_mainLoop, handlers, mainInLog, exitCode,
                         cfgVars, srvVars, inputVars >>
    ELSE /\ log' = IF Log
                     THEN Append(log, Entry("info", "shutting_down", sig, "", mainInLog))
                     ELSE log
         /\ is_running' = IF g_mainLoop THEN ~is_running ELSE is_running
         /\ UNCHANGED << pc, Log, g_mainLoop, handlers, mainInLog, exitCode,
                         cfgVars, srvVars, inputVars >>

(* mutant: the handler logs without testing the logger handle *)
SignalHandler_NoLogCheck(sig) ==
  IF sig \in CrashSignals
    THEN /\ log' = Append(log, Entry("critical", "crashed", sig, "", mainInLog))
         /\ pc' = "crashed"
         /\ UNCHANGED << is_running, Log, g_mainLoop, handlers, mainInLog, exitCode,
                         cfgVars, srvVars, inputVars >>
    ELSE /\ log' = Append(log, Entry("info", "shutting_down", sig, "", mainInLog))
         /\ is_running' = IF g_mainLoop THEN FALSE ELSE is_running
         /\ UNCHANGED << pc, Log, g_mainLoop, handlers, mainInLog, exitCode,
                         cfgVars, srvVars, inputVars >>

(* SignalHandler(signal): the crash branch logs, restores the default      *)
(* disposition and re-raises, which ends the process; the termination      *)
(* branch logs and quits the loop if the handle is set.                    *)
SignalHandler(sig) ==
  IF sig = SIGSEGV \/ sig = SIGABRT \/ sig = SIGFPE \/ sig = SIGBUS \/ sig = SIGILL
    THEN /\ log' = IF Log
                     THEN Append(log, Entry("critical", "crashed", sig, "", mainInLog))
                     ELSE log
         /\ pc' = "crashed"
         /\ UNCHANGED << is_running, Log, g_mainLoop, handlers, mainInLog, exitCode,
                         cfgVars, srvVars, inputVars >>
    ELSE IF sig = SIGINT \/ sig = SIGTERM
      THEN /\ log' = IF Log
                       THEN Append(log, Entry("info", "shutting_down", sig, "", mainInLog))
                       ELSE log
           /\ is_running' = IF g_mainLoop THEN FALSE ELSE is_running
           /\ UNCHANGED << pc, Log, g_mainLoop, handlers, mainInLog, exitCode,
                           cfgVars, srvVars, inputVars >>
      ELSE UNCHANGED << pc, log, is_running, Log, g_mainLoop, handlers, mainInLog, exitCode,
                        cfgVars, srvVars, inputVars >>

(* a signal whose disposition is still the default one ends the process *)
DefaultDisposition(sig) ==
  /\ pc' = "killed"
  /\ UNCHANGED << log, is_running, Log, g_mainLoop, handlers, mainInLog, exitCode,
                  cfgVars, srvVars, inputVars >>

Terminal == {"exited", "crashed", "killed"}

(* one of the seven signals reaches the process between two steps of main *)
DeliverSignal ==
  \E sig \in Signals :
    /\ pc \notin Terminal
    /\ Len(delivered) < MaxSignals
    /\ delivered' = Append(delivered, [sig |-> sig, at |-> pc, inLog |-> mainInLog])
    /\ IF handlers THEN SignalHandler(sig) ELSE DefaultDisposition(sig)

(* ---- main, after LoadConfig ---- *)

(* staticServer(gst_rtsp_server_new()); if(!server) *)
ServerNew ==
  /\ pc = "server_new"
  /\ \E r \in {"ok", "null"} :
       /\ server' = r
       /\ pc' = IF r = "null" THEN "fail_server" ELSE "mounts_new"
  /\ UNCHANGED << mountPoints, service, serverMounts, registry, regIdx, boundPort,
                  log, mainInLog, exitCode, delivered, cfgVars, sigVars, inputVars >>

(* mountPointsPtr(gst_rtsp_mount_points_new()); if(!server) *)
MountPointsNew ==
  /\ pc = "mounts_new"
  /\ \E r \in {"ok", "null"} :
       /\ mountPoints' = r
       /\ pc' = IF server = "null" THEN "fail_mounts" ELSE "configure"
  /\ UNCHANGED << server, service, serverMounts, registry, regIdx, boundPort,
                  log, mainInLog, exitCode, delivered, cfgVars, sigVars, inputVars >>

(* Log->error("Fail to create ..."); return -1 *)
FailExit ==
  /\ pc \in {"fail_server", "fail_mounts"}
  /\ MainLog("error",
             IF pc = "fail_server" THEN "fail_create_server" ELSE "fail_create_mount_points",
             0, "")
  /\ pc' = "exited"
  /\ exitCode' = << -1 >>
  /\ UNCHANGED << delivered, cfgVars, srvVars, sigVars, inputVars >>

(* mutant: the service is set from the default port *)
ConfigureServer_DefaultPort ==
  /\ pc = "configure"
  /\ service' = to_string(DefaultPort)
  /\ serverMounts' = mountPoints
  /\ regIdx' = 1
  /\ pc' = "reg_h264"
  /\ UNCHANGED << server, mountPoints, registry, boundPort,
                  log, mainInLog, exitCode, delivered, cfgVars, sigVars, inputVars >>

(* gst_rtsp_server_set_service(server, std::to_string(config.port));       *)
(* gst_rtsp_server_set_mount_points(server, mountPoints)                   *)
ConfigureServer ==
  /\ pc = "configure"
  /\ service' = to_string(config)
  /\ serverMounts' = mountPoints
  /\ regIdx' = 1
  /\ pc' = "reg_h264"
  /\ UNCHANGED << server, mountPoints, registry, boundPort,
                  log, mainInLog, exitCode, delivered, cfgVars, sigVars, inputVars >>

(* One pass of a registration loop body: a factory with the PLAY transport *)
(* mode, the launch line and the shared flag is added under path.  With a  *)
(* null registry gst_rtsp_mount_points_add_factory either returns at its   *)
(* argument check or, in a build without the checks, dereferences null:    *)
(* the SIGSEGV then runs SignalHandler.                                    *)
AddFactoryStep(path, launch) ==
  IF mountPoints = "ok"
    THEN /\ registry' = add_factory(registry, path, Factory(path, launch))
         /\ regIdx' = regIdx + 1
         /\ UNCHANGED << pc, server, mountPoints, service, serverMounts, boundPort,
                         log, mainInLog, exitCode, delivered, cfgVars, sigVars, inputVars >>
    ELSE \E outcome \in {"ignored", "fault"} :
           IF outcome = "ignored"
             THEN /\ regIdx' = regIdx + 1
                  /\ UNCHANGED << pc, registry, server, mountPoints, service, serverMounts,
                                  boundPort, log, mainInLog, exitCode, delivered,
                                  cfgVars, sigVars, inputVars >>
             ELSE /\ SignalHandler(SIGSEGV)
                  /\ UNCHANGED delivered

(* the h264 loop *)
RegisterH264 ==
  /\ pc = "reg_h264"
  /\ IF regIdx > Len(createMountPoints)
       THEN /\ pc' = "reg_vp8"
            /\ regIdx' = 1
            /\ UNCHANGED << registry, server, mountPoints, service, serverMounts, boundPort,
                            log, mainInLog, exitCode, delivered, cfgVars, sigVars, inputVars >>
       ELSE AddFactoryStep(H264Path(createMountPoints[regIdx]),
                           Format(h264PipelineTemplate, createMountPoints[regIdx].second))

(* mutant: the vp8 loop walks the catalog backwards *)
RegisterVp8_Reverse ==
  /\ pc = "reg_vp8"
  /\ IF regIdx > Len(createMountPoints)
       THEN /\ pc' = "loop_new"
            /\ regIdx' = 1
            /\ UNCHANGED << registry, server, mountPoints, service, serverMounts, boundPort,
                            log, mainInLog, exitCode, delivered, cfgVars, sigVars, inputVars >>
       ELSE AddFactoryStep(
              Vp8Path(createMountPoints[Len(createMountPoints) + 1 - regIdx]),
              Format(vp8PipelineTemplate,
                     createMountPoints[Len(createMountPoints) + 1 - regIdx].second))

(* the vp8 loop *)
RegisterVp8 ==
  /\ pc = "reg_vp8"
  /\ IF regIdx > Len(createMountPoints)
       THEN /\ pc' = "loop_new"
            /\ regIdx' = 1
            /\ UNCHANGED << registry, server, mountPoints, service, serverMounts, boundPort,
                            log, mainInLog, exitCode, delivered, cfgVars, sigVars, inputVars >>
       ELSE AddFactoryStep(Vp8Path(createMountPoints[regIdx]),
                           Format(vp8PipelineTemplate, createMountPoints[regIdx].second))

(* loopPtr(g_main_loop_new(nullptr, FALSE)); g_mainLoop = loop *)
LoopNew ==
  /\ pc = "loop_new"
  /\ g_mainLoop' = TRUE
  /\ is_running' = FALSE
  /\ pc' = "attach"
  /\ UNCHANGED << Log, handlers, log, mainInLog, exitCode, delivered,
                  cfgVars, srvVars, inputVars >>

(* gst_rtsp_server_attach(server, nullptr) *)
Attach ==
  /\ pc = "attach"
  /\ boundPort' = ParseService(service)
  /\ pc' = "log_started"
  /\ UNCHANGED << server, mountPoints, service, serverMounts, registry, regIdx,
                  log, mainInLog, exitCode, delivered, cfgVars, sigVars, inputVars >>

(* Log->info("Server started successfully on port {}", config.port) *)
LogStarted ==
  /\ pc = "log_started"
  /\ MainLog("info", "started", config, "")
  /\ pc' = "log_available"
  /\ UNCHANGED << exitCode, delivered, cfgVars, srvVars, sigVars, inputVars >>

(* Log->info("Available streams:") and the head of the for loop *)
LogAvailable ==
  /\ pc = "log_available"
  /\ MainLog("info", "available_streams", 0, "")
  /\ regIdx' = 1
  /\ pc' = IF Len(createMountPoints) = 0 THEN "loop_run" ELSE "log_stream_h264"
  /\ UNCHANGED << server, mountPoints, service, serverMounts, registry, boundPort,
                  exitCode, delivered, cfgVars, sigVars, inputVars >>

(* Log->info("  rtsp://localhost:{}/{} (H.264)", ...) *)
LogStreamH264 ==
  /\ pc = "log_stream_h264"
  /\ MainLog("info", "stream_h264", config, createMountPoints[regIdx].first)
  /\ pc' = "log_stream_vp8"
  /\ UNCHANGED << exitCode, delivered, cfgVars, srvVars, sigVars, inputVars >>

(* Log->info("  rtsp://localhost:{}/{}-vp8 (VP8)", ...) *)
LogStreamVp8 ==
  /\ pc = "log_stream_vp8"
  /\ MainLog("info", "stream_vp8", config, createMountPoints[regIdx].first)
  /\ regIdx' = regIdx + 1
  /\ pc' = IF regIdx + 1 > Len(createMountPoints) THEN "loop_run" ELSE "log_stream_h264"
  /\ UNCHANGED << server, mountPoints, service, serverMounts, registry, boundPort,
                  exitCode, delivered, cfgVars, sigVars, inputVars >>

(* g_main_loop_run(loop) is entered: the loop is marked running *)
LoopRun ==
  /\ pc = "loop_run"
  /\ is_running' = TRUE
  /\ pc' = "in_loop"
  /\ UNCHANGED << Log, g_mainLoop, handlers, log, mainInLog, exitCode, delivered,
                  cfgVars, srvVars, inputVars >>

(* g_main_loop_run(loop) returns once the loop is no longer running *)
LoopReturn ==
  /\ pc = "in_loop"
  /\ ~is_running
  /\ pc' = "log_exit"
  /\ UNCHANGED << log, mainInLog, exitCode, delivered, cfgVars, srvVars, sigVars, inputVars >>

(* Log->info("=== RTSP Test Server exiting normally ===") *)
LogExit ==
  /\ pc = "log_exit"
  /\ MainLog("info", "exiting_normally", 0, "")
  /\ pc' = "return"
  /\ UNCHANGED << exitCode, delivered, cfgVars, srvVars, sigVars, inputVars >>

(* return 0 *)
Return ==
  /\ pc = "return"
  /\ pc' = "exited"
  /\ exitCode' = << 0 >>
  /\ UNCHANGED << log, mainInLog, delivered, cfgVars, srvVars, sigVars, inputVars >>

(* a step of the main sequence up to the entry of the event loop *)
MainStartup ==
  \/ InitLogger
  \/ SetupSignalHandlers
  \/ BeginLog
  \/ LogStarting
  \/ LoadConfig
  \/ ServerNew
  \/ MountPointsNew
  \/ FailExit
  \/ ConfigureServer
  \/ RegisterH264
  \/ RegisterVp8
  \/ LoopNew
  \/ Attach
  \/ LogStarted
  \/ LogAvailable
  \/ LogStreamH264
  \/ LogStreamVp8
  \/ LoopRun

(* a step of the main sequence *)
Main ==
  \/ MainStartup
  \/ LoopReturn
  \/ LogExit
  \/ Return

Next == Main \/ DeliverSignal

Spec == Init /\ [][Next]_vars

(* the main thread keeps executing while it has a step to take *)
FairSpec == Spec /\ WF_vars(Main)

(* the start of main up to the entry of the event loop, for every catalog, *)
(* with no signal delivered                                                *)
SpecRegistration == InitRegistration /\ [][MainStartup]_vars

(* the handler on its own: it is installed, and the two handles and the    *)
(* loop's running flag take every combination of values                    *)
InitHandler ==
  /\ pc = "log_starting"
  /\ Log \in BOOLEAN
  /\ g_mainLoop \in BOOLEAN
  /\ handlers = TRUE
  /\ is_running \in {r \in BOOLEAN : r => g_mainLoop}
  /\ configDirs \in LifecycleDirs
  /\ createMountPoints = TestCatalog
  /\ lcIdx = 0
  /\ loadedConfig = 0
  /\ config = DefaultPort
  /\ server = "unset"
  /\ mountPoints = "unset"
  /\ service = << >>
  /\ serverMounts = "unset"
  /\ registry = << >>
  /\ regIdx = 0
  /\ boundPort = 0
  /\ log = << >>
  /\ mainInLog = FALSE
  /\ exitCode = << >>
  /\ delivered = << >>

SpecHandler == InitHandler /\ [][DeliverSignal]_vars

(***************************************************************************)
(* Properties of configuration resolution (checked under SpecConfig)       *)
(***************************************************************************)

(* LoadConfig has returned *)
Resolved == pc = "server_new"

IsMalformed(d) == d.kind = "malformed"
SuppliesValidPort(d) == d.kind = "port" /\ 0 < d.port /\ d.port < 65535
SuppliesInvalidPort(d) == d.kind = "port" /\ (d.port <= 0 \/ d.port >= 65535)

HasMalformed(dirs) == \E i \in 1..Len(dirs) : IsMalformed(dirs[i])

(* index of the first malformed file, 0 if there is none *)
FirstMalformed(dirs) ==
  IF HasMalformed(dirs)
    THEN CHOOSE i \in 1..Len(dirs) :
           IsMalformed(dirs[i]) /\ \A j \in 1..(i - 1) : ~IsMalformed(dirs[j])
    ELSE 0

(* the port of the last directory that supplies a valid one, else dflt *)
LastValidPort(dirs, dflt) ==
  IF \E i \in 1..Len(dirs) : SuppliesValidPort(dirs[i])
    THEN LET last == CHOOSE i \in 1..Len(dirs) :
                       SuppliesValidPort(dirs[i])
                       /\ \A j \in (i + 1)..Len(dirs) : ~SuppliesValidPort(dirs[j])
         IN dirs[last].port
    ELSE dflt

ErrorsLogged == {i \in 1..Len(log) : log[i].level = "error"}

(* C3, as stated: when some file is malformed, LoadConfig returns what the *)
(* directories strictly before the first malformed one accumulated.        *)
C3_AccumulatedKept ==
  (Resolved /\ HasMalformed(configDirs)) =>
    config = LastValidPort(SubSeq(configDirs, 1, FirstMalformed(configDirs) - 1), DefaultPort)

(* C3, amended: when some file is malformed, LoadConfig returns with the   *)
(* configuration it was given (the default port 9554); the port an earlier *)
(* directory supplied is held in the local copy only and is discarded.     *)
C3_MalformedKeepsDefault ==
  (Resolved /\ HasMalformed(configDirs)) =>
    /\ config = DefaultPort
    /\ loadedConfig = LastValidPort(SubSeq(configDirs, 1, FirstMalformed(configDirs) - 1),
                                    DefaultPort)

C3_Witness ==
  /\ Resolved
  /\ Len(configDirs) >= 2
  /\ FirstMalformed(configDirs) = 2
  /\ SuppliesValidPort(configDirs[1])
  /\ loadedConfig = configDirs[1].port
  /\ config = DefaultPort

(* C4: with no malformed file, LoadConfig returns the port of the last     *)
(* directory that supplies one in (0, 65535), and 9554 if none does.       *)
C4_LastValidWins ==
  (Resolved /\ ~HasMalformed(configDirs)) => config = LastValidPort(configDirs, DefaultPort)

C4_Witness ==
  /\ Resolved
  /\ configDirs = << WithPort(1000), WithPort(2000) >>
  /\ config = 2000

(* C5: no directory after the first malformed file is consulted: the loop  *)
(* index never passes it, no later file is loaded, and the returned port   *)
(* is the same whatever the later directories hold.                        *)
C5_NothingAfterMalformed ==
  HasMalformed(configDirs) =>
    /\ lcIdx <= FirstMalformed(configDirs)
    /\ \A i \in 1..Len(log) :
         log[i].msg = "loading_config" => log[i].arg <= FirstMalformed(configDirs)
    /\ Resolved => config = DefaultPort

C5_Witness ==
  /\ Resolved
  /\ Len(configDirs) = 2
  /\ IsMalformed(configDirs[1])
  /\ SuppliesValidPort(configDirs[2])
  /\ config = DefaultPort

(* C6: a well-formed file with an out-of-range port leaves the accumulated *)
(* port as it was, logs an error, and the loop goes on to the next         *)
(* directory; only a malformed file leads to the failure return.           *)
C6_InvalidPortNonFatal ==
  [][ /\ (pc = "lc_read" /\ SuppliesInvalidPort(configDirs[lcIdx])) =>
           (pc' = "lc_invalid" /\ loadedConfig' = loadedConfig /\ config' = config)
      /\ (pc = "lc_invalid" /\ pc' # "lc_invalid") =>
           /\ pc' = "lc_test"
           /\ lcIdx' = lcIdx + 1
           /\ loadedConfig' = loadedConfig
           /\ log' = Append(log, Entry("error", "invalid_port", lcIdx, "", FALSE))
      /\ (pc' = "lc_fail") => IsMalformed(configDirs[lcIdx])
    ]_vars

C6_Witness ==
  /\ Resolved
  /\ Len(configDirs) = 3
  /\ SuppliesValidPort(configDirs[1])
  /\ SuppliesInvalidPort(configDirs[2])
  /\ SuppliesValidPort(configDirs[3])
  /\ configDirs[1].port # configDirs[3].port
  /\ \E i \in 1..Len(log) : log[i].msg = "invalid_port" /\ log[i].arg = 2
  /\ config = configDirs[3].port

(* the values the port may hold without loss: the default and the ports    *)
(* read from the files                                                     *)
ParsedPorts == {configDirs[i].port : i \in {j \in 1..Len(configDirs) : configDirs[j].kind = "port"}}

(* C7: the port is always in (0, 65535), and is the default or exactly a   *)
(* value read from a file: the conversion to 16 bits never changes it.     *)
C7_PortInvariant ==
  /\ 0 < config /\ config < 65535
  /\ config \in {DefaultPort} \cup ParsedPorts
  /\ lcIdx >= 1 =>
       /\ 0 < loadedConfig /\ loadedConfig < 65535
       /\ loadedConfig \in {DefaultPort} \cup ParsedPorts

C7_Witness ==
  /\ Resolved
  /\ Len(configDirs) = 3
  /\ configDirs[1] = WithPort(65534)
  /\ configDirs[2] = WithPort(70000)
  /\ configDirs[3] = WithPort(65536)
  /\ config = 65534

AllMissing(dirs) == \A i \in 1..Len(dirs) : dirs[i].kind = "missing"

(* C8: with an empty directory list, or with the file in no directory,     *)
(* LoadConfig returns the default port, logs nothing, and every directory  *)
(* was visited.                                                            *)
C8_NoFileDefault ==
  AllMissing(configDirs) =>
    /\ config = DefaultPort
    /\ ErrorsLogged = {}
    /\ pc \notin {"lc_loading", "lc_read", "lc_fail", "lc_invalid"}
    /\ (Resolved /\ Len(configDirs) > 0) => lcIdx = Len(configDirs) + 1

C8_Witness ==
  /\ Resolved
  /\ Len(configDirs) = 2
  /\ AllMissing(configDirs)
  /\ config = DefaultPort
  /\ lcIdx = 3

C8_WitnessEmpty ==
  /\ Resolved
  /\ configDirs = << >>
  /\ config = DefaultPort

(***************************************************************************)
(* Properties of the process lifecycle (checked under Spec and FairSpec)   *)
(***************************************************************************)

Crashed == pc = "crashed"
Exited == pc = "exited"
ExitedZero == pc = "exited" /\ exitCode = << 0 >>
Running == pc = "in_loop" /\ is_running
ShuttingDown == (pc = "in_loop" /\ ~is_running) \/ pc \in {"log_exit", "return"}
Starting == pc \notin Terminal /\ ~Running /\ ~ShuttingDown

(* the handler was installed when the i-th signal was delivered *)
Handled(i) == delivered[i].at \notin {"InitLogger", "SetupSignalHandlers"}

(* some termination-class signal was delivered inside g_main_loop_run *)
TermInLoop ==
  \E i \in 1..Len(delivered) : delivered[i].sig \in {SIGINT, SIGTERM} /\ delivered[i].at = "in_loop"

ShutdownMsgs == {i \in 1..Len(log) : log[i].msg = "shutting_down"}
ExitMsgs == {i \in 1..Len(log) : log[i].msg = "exiting_normally"}

(* C1: a termination-class signal delivered inside g_main_loop_run stops   *)
(* the loop, the main sequence resumes and the process exits with status   *)
(* 0 (unless a crash-class signal ends it first); when it is the only      *)
(* signal delivered there is exactly one shutdown message, written by the  *)
(* handler, and then exactly one normal-exit message, written by main.     *)
C1_TermInLoopExits ==
  /\ [](TermInLoop =>
          /\ pc \in {"in_loop", "log_exit", "return", "exited", "crashed"}
          /\ pc = "in_loop" => ~is_running
          /\ pc = "exited" => exitCode = << 0 >>
          /\ \A k \in ExitMsgs : \E j \in ShutdownMsgs : j < k)
  /\ []((TermInLoop /\ Len(delivered) = 1) =>
          /\ Cardinality(ShutdownMsgs) = 1
          /\ \A j \in ShutdownMsgs :
               log[j] = Entry("info", "shutting_down", delivered[1].sig, "", FALSE)
          /\ pc \in {"return", "exited"} =>
               (Cardinality(ExitMsgs) = 1 /\ \A k \in ExitMsgs : k = Len(log))
          /\ pc \in {"in_loop", "log_exit"} => ExitMsgs = {})
  /\ (TermInLoop ~> (ExitedZero \/ Crashed))

C1_Witness ==
  /\ ExitedZero
  /\ Len(delivered) = 1
  /\ delivered[1].sig = SIGTERM
  /\ delivered[1].at = "in_loop"
  /\ Len(log) >= 2
  /\ log[Len(log) - 1].msg = "shutting_down"
  /\ log[Len(log)].msg = "exiting_normally"

(* a crash-class signal was delivered with the handler installed *)
CrashHandled(i) == delivered[i].sig \in {SIGSEGV, SIGABRT, SIGFPE, SIGBUS, SIGILL} /\ Handled(i)

(* this step delivers a crash-class signal to the installed handler *)
CrashDelivery ==
  /\ Len(delivered') = Len(delivered) + 1
  /\ delivered'[Len(delivered')].sig \in {SIGSEGV, SIGABRT, SIGFPE, SIGBUS, SIGILL}
  /\ handlers

(* C2: a crash-class signal delivered once the handler is installed, in    *)
(* any lifecycle state, makes the handler log one critical line naming the *)
(* signal (the logger exists by then) and end the process by re-raising:   *)
(* the loop is not asked to stop, nothing is logged after the critical     *)
(* line, no exit code is ever set and the process stays Crashed.           *)
C2_CrashIsTerminal ==
  /\ [][CrashDelivery =>
          /\ Log
          /\ log' = Append(log, Entry("critical", "crashed",
                                      delivered'[Len(delivered')].sig, "", mainInLog))
          /\ pc' = "crashed"
          /\ is_running' = is_running
          /\ exitCode' = exitCode]_vars
  /\ [][Crashed => (pc' = "crashed" /\ log' = log /\ is_running' = is_running
                    /\ exitCode' = exitCode)]_vars
  /\ [](\A i \in 1..Len(delivered) :
          CrashHandled(i) =>
            /\ i = Len(delivered)
            /\ Crashed
            /\ exitCode = << >>
            /\ Len(log) > 0
            /\ log[Len(log)].msg = "crashed"
            /\ log[Len(log)].arg = delivered[i].sig)

C2_Witness ==
  /\ Crashed
  /\ Len(delivered) = 2
  /\ delivered[1].sig = SIGINT
  /\ delivered[1].at = "in_loop"
  /\ delivered[2].sig = SIGBUS
  /\ delivered[2].at = "log_exit"
  /\ log[Len(log)] = Entry("critical", "crashed", SIGBUS, "", delivered[2].inLog)

C2_WitnessStarting ==
  /\ Crashed
  /\ Len(delivered) = 1
  /\ delivered[1].sig = SIGSEGV
  /\ delivered[1].at = "lc_read"

C2_WitnessRunning ==
  /\ Crashed
  /\ Len(delivered) = 1
  /\ delivered[1].sig = SIGABRT
  /\ delivered[1].at = "in_loop"

(* positions of main from the first registration to the return *)
AfterConstruction ==
  { "configure", "reg_h264", "reg_vp8", "loop_new", "attach", "log_started", "log_available",
    "log_stream_h264", "log_stream_vp8", "loop_run", "in_loop", "log_exit", "return" }

(* C9: when the server or the mount-point registry cannot be constructed,  *)
(* main logs an error and returns a non-zero value; no registration is     *)
(* attempted and the event loop is never started.                          *)
C9_ConstructionFailureFatal ==
  (server = "null" \/ mountPoints = "null") =>
    /\ pc \notin AfterConstruction
    /\ registry = << >>
    /\ ~is_running
    /\ pc = "exited" =>
         /\ exitCode # << 0 >>
         /\ \E i \in 1..Len(log) :
              log[i].level = "error"
              /\ log[i].msg \in {"fail_create_server", "fail_create_mount_points"}

(* what holds of the code: a null server is fatal *)
ServerFailureFatal ==
  server = "null" =>
    /\ pc \in {"fail_server", "exited", "crashed"}
    /\ registry = << >>
    /\ ~is_running
    /\ pc = "exited" => exitCode = << -1 >>

(* the event loop runs although the registry was never constructed *)
LoopRunsWithoutRegistry == mountPoints = "null" /\ pc = "in_loop" /\ is_running

(***************************************************************************)
(* Properties of registration (checked under SpecRegistration)             *)
(***************************************************************************)

(* both registration loops have run to their end *)
RegistrationDone ==
  pc \in {"loop_new", "attach", "log_started", "log_available", "log_stream_h264",
          "log_stream_vp8", "loop_run", "in_loop"}

ExpectedH264Launch(pattern) ==
  ("( videotestsrc pattern=" \o pattern)
    \o " ! timeoverlay ! x264enc ! video/x-h264, profile=baseline ! rtph264pay name=pay0 pt=96 config-interval=-1 audiotestsrc ! alawenc ! rtppcmapay name=pay1 pt=8 )"

ExpectedVp8Launch(pattern) ==
  ("( videotestsrc pattern=" \o pattern)
    \o " ! timeoverlay ! vp8enc ! rtpvp8pay name=pay0 pt=96 audiotestsrc ! opusenc ! rtpopuspay name=pay1 pt=97 )"

ExpectedRegistrations(catalog) ==
  { [path |-> "/" \o catalog[i].first, launch |-> ExpectedH264Launch(catalog[i].second),
     transport |-> "PLAY", shared |-> TRUE] : i \in 1..Len(catalog) }
  \cup
  { [path |-> ("/" \o catalog[i].first) \o "-vp8", launch |-> ExpectedVp8Launch(catalog[i].second),
     transport |-> "PLAY", shared |-> TRUE] : i \in 1..Len(catalog) }

Registered == {registry[i] : i \in 1..Len(registry)}

(* C10: once the registration loops have run, the registry holds exactly   *)
(* one factory per (catalog entry, codec) pair, 2 x |catalog| in all, each *)
(* PLAY-only and shared, under "/"+name and "/"+name+"-vp8".               *)
C10_RegistrationsExact ==
  RegistrationDone =>
    /\ Registered = ExpectedRegistrations(createMountPoints)
    /\ Len(registry) = 2 * Len(createMountPoints)

(* no name of the catalog is another name followed by "-vp8" *)
NoSuffixClash(catalog) ==
  \A i, j \in 1..Len(catalog) : catalog[i].first # catalog[j].first \o "-vp8"

(* what holds of the code: the same, when the registry was constructed and *)
(* no two paths coincide                                                   *)
RegistrationsExactWhenConstructed ==
  (RegistrationDone /\ mountPoints = "ok" /\ NoSuffixClash(createMountPoints)) =>
    /\ Registered = ExpectedRegistrations(createMountPoints)
    /\ Len(registry) = 2 * Len(createMountPoints)
    /\ (createMountPoints = TestCatalog) =>
         registry = << Factory("/test", ExpectedH264Launch("smpte")),
                       Factory("/test-vp8", ExpectedVp8Launch("smpte")) >>

RegistrationsWitness ==
  /\ pc = "loop_new"
  /\ mountPoints = "ok"
  /\ Len(createMountPoints) = 2
  /\ Len(registry) = 4

(* the registrations in the order claimed: H.264 for every entry in        *)
(* catalog order, then VP8 for every entry in catalog order                *)
ExpectedOrder(catalog) ==
  [k \in 1..(2 * Len(catalog)) |->
     IF k <= Len(catalog)
       THEN [path |-> "/" \o catalog[k].first,
             launch |-> ExpectedH264Launch(catalog[k].second),
             transport |-> "PLAY", shared |-> TRUE]
       ELSE [path |-> ("/" \o catalog[k - Len(catalog)].first) \o "-vp8",
             launch |-> ExpectedVp8Launch(catalog[k - Len(catalog)].second),
             transport |-> "PLAY", shared |-> TRUE]]

(* place of a registered factory in that order *)
OrderIndex(f) ==
  CHOOSE k \in 1..(2 * Len(createMountPoints)) : ExpectedOrder(createMountPoints)[k] = f

(* registrations made so far, when the registry exists *)
RegistrationsMade ==
  IF pc = "reg_h264" THEN regIdx - 1
  ELSE IF pc = "reg_vp8" THEN Len(createMountPoints) + regIdx - 1
  ELSE IF RegistrationDone THEN 2 * Len(createMountPoints)
  ELSE 0

(* C11: registrations happen for H.264 in catalog order, then for VP8 in   *)
(* catalog order: each registration is the next one of that order, and the *)
(* registry never holds a VP8 factory before an H.264 one.                 *)
C11_RegistrationOrder ==
  /\ [](\A i \in 1..Len(registry) :
          /\ registry[i] \in ExpectedRegistrations(createMountPoints)
          /\ \A j \in (i + 1)..Len(registry) :
               OrderIndex(registry[i]) < OrderIndex(registry[j]))
  /\ [](pc = "reg_h264" =>
          \A i \in 1..Len(registry) : OrderIndex(registry[i]) <= Len(createMountPoints))
  /\ [][registry' # registry =>
          /\ RegistrationsMade' = RegistrationsMade + 1
          /\ registry'[Len(registry')] = ExpectedOrder(createMountPoints)[RegistrationsMade']
       ]_vars

C11_Witness ==
  /\ pc = "loop_new"
  /\ Len(createMountPoints) = 2
  /\ Len(registry) = 4
  /\ registry[1].path = "/bars"
  /\ registry[2].path = "/test"
  /\ registry[3].path = "/bars-vp8"
  /\ registry[4].path = "/test-vp8"

(***************************************************************************)
(* Distinctness of the registered paths (checked under SpecRegistration)   *)
(***************************************************************************)

DistinctNames(catalog) ==
  \A i, j \in 1..Len(catalog) : i # j => catalog[i].first # catalog[j].first

PathsDistinct == \A i, j \in 1..Len(registry) : i # j => registry[i].path # registry[j].path

(* the paths main hands to the registry for the catalog *)
UrlPaths(catalog) ==
  {H264Path(catalog[i]) : i \in 1..Len(catalog)} \cup {Vp8Path(catalog[i]) : i \in 1..Len(catalog)}

(* C20, as stated: with pairwise distinct names the 2 x |catalog| paths    *)
(* are pairwise distinct and every registration made is still in the       *)
(* registry.                                                               *)
C20_DistinctNamesDistinctPaths ==
  DistinctNames(createMountPoints) =>
    /\ Cardinality(UrlPaths(createMountPoints)) = 2 * Len(createMountPoints)
    /\ mountPoints = "ok" => Len(registry) = RegistrationsMade

(* C20, amended: with pairwise distinct names none of which is another     *)
(* name followed by "-vp8", the 2 x |catalog| paths are pairwise distinct, *)
(* no registration replaces an earlier one, and every registration made is *)
(* still in the registry.                                                  *)
C20_NoClashDistinctPaths ==
  (DistinctNames(createMountPoints) /\ NoSuffixClash(createMountPoints)) =>
    /\ Cardinality(UrlPaths(createMountPoints)) = 2 * Len(createMountPoints)
    /\ PathsDistinct
    /\ mountPoints = "ok" => Len(registry) = RegistrationsMade

C20_Witness ==
  /\ pc = "loop_new"
  /\ mountPoints = "ok"
  /\ Len(createMountPoints) = 3
  /\ DistinctNames(createMountPoints)
  /\ Len(registry) = 6
  /\ PathsDistinct

(* the colliding catalog: the H.264 factory of "test-vp8" is replaced by   *)
(* the VP8 factory of "test"                                               *)
PathReplaced ==
  /\ pc = "loop_new"
  /\ mountPoints = "ok"
  /\ ~NoSuffixClash(createMountPoints)
  /\ Len(registry) = 3

(***************************************************************************)
(* Handler installation and the two handles (checked under Spec)           *)
(***************************************************************************)

(* positions of main inside configuration resolution and registration *)
ResolutionPcs == {"lc_dirs", "lc_test", "lc_loading", "lc_read", "lc_fail", "lc_invalid", "lc_commit"}
RegistrationPcs == {"reg_h264", "reg_vp8"}

C13_HandlesSetBeforeInstall ==
  /\ [](handlers => (Log /\ g_mainLoop))
  /\ [][handlers => (Log' = Log /\ g_mainLoop' = g_mainLoop)]_vars

(* what holds of the code: the logger handle is set before the             *)
(* installation and never written again; the event-loop handle is written  *)
(* once, at line 214, with the handlers installed                          *)
LogHandleStable ==
  /\ [](handlers => Log)
  /\ [][handlers => Log' = Log]_vars
  /\ [][g_mainLoop' # g_mainLoop => (pc = "loop_new" /\ handlers /\ ~g_mainLoop)]_vars

(* a handler runs with the event-loop handle still null *)
HandlerRunsWithNullLoop ==
  \E i \in 1..Len(delivered) :
    /\ Handled(i)
    /\ delivered[i].at \in ResolutionPcs \cup RegistrationPcs

(***************************************************************************)
(* Termination requests before the loop runs (checked under Spec)          *)
(***************************************************************************)

(* delivery i is a termination-class signal that the handler handled *)
TermHandled(i) == delivered[i].sig \in {SIGINT, SIGTERM} /\ Handled(i)

(* C14: a handled termination-class signal stops the loop, whenever it was *)
(* delivered: once a shutdown message is logged for a handled signal, the  *)
(* loop is never left running.                                             *)
C14_HandledTermStopsLoop ==
  (pc = "in_loop" /\ ShutdownMsgs # {} /\ \E i \in 1..Len(delivered) : TermHandled(i))
    => ~is_running

(* the stop request of a signal handled before the handle is stored is     *)
(* skipped: the loop runs although the shutdown message was logged         *)
TermLostBeforeHandle ==
  /\ pc = "in_loop"
  /\ is_running
  /\ \E i \in 1..Len(delivered) : TermHandled(i) /\ delivered[i].at \in ResolutionPcs
  /\ ShutdownMsgs # {}

(* the stop request of a signal handled after the handle is stored and     *)
(* before the run call is undone by the run call                           *)
TermLostBeforeRun ==
  /\ pc = "in_loop"
  /\ is_running
  /\ Len(delivered) = 1
  /\ TermHandled(1)
  /\ delivered[1].at \in {"attach", "log_started", "log_available", "log_stream_h264",
                          "log_stream_vp8", "loop_run"}

(***************************************************************************)
(* The handler and the main sequence inside the logger (checked under      *)
(* Spec)                                                                   *)
(***************************************************************************)

(* C15: the handler never begins a log write while the main sequence is in *)
(* the middle of a log write on the same logger.                           *)
C15_NoLogInsideLog ==
  /\ \A i \in 1..Len(log) : ~log[i].reentrant
  /\ \A i \in 1..Len(delivered) : (Handled(i) /\ delivered[i].sig \in Signals) => ~delivered[i].inLog

(* the handler logged while main was inside Log->error of LoadConfig *)
HandlerLogsInsideMainLog ==
  \E i \in 1..Len(delivered) :
    /\ delivered[i].at = "lc_fail"
    /\ delivered[i].inLog
    /\ \E k \in 1..Len(log) : log[k].reentrant /\ log[k].arg = delivered[i].sig

(***************************************************************************)
(* The handler and null handles (checked under SpecHandler)                *)
(***************************************************************************)

(* this step runs the installed handler for the signal just delivered *)
HandlerStep == handlers /\ Len(delivered') = Len(delivered) + 1

LastSig == delivered'[Len(delivered')].sig

(* C16: the handler never uses a null handle: with the logger handle null  *)
(* it writes nothing and still re-raises (crash class) or asks the loop to *)
(* stop (termination class); with the event-loop handle null it asks       *)
(* nothing of the loop; with a handle set it uses it.                      *)
C16_NullHandlesTolerated ==
  [][HandlerStep =>
       /\ ~Log => log' = log
       /\ Log => (Len(log') = Len(log) + 1 /\ log'[Len(log')].arg = LastSig)
       /\ LastSig \in {SIGSEGV, SIGABRT, SIGFPE, SIGBUS, SIGILL} =>
            (pc' = "crashed" /\ is_running' = is_running)
       /\ LastSig \in {SIGINT, SIGTERM} =>
            /\ pc' = pc
            /\ ~g_mainLoop => is_running' = is_running
            /\ g_mainLoop => ~is_running'
       /\ Log' = Log /\ g_mainLoop' = g_mainLoop
    ]_vars

(* a termination-class signal handled with both handles null *)
C16_Witness ==
  /\ ~Log
  /\ ~g_mainLoop
  /\ Len(delivered) = 1
  /\ delivered[1].sig = SIGTERM
  /\ log = << >>
  /\ pc = "log_starting"

(* a crash-class signal handled with the logger handle null *)
C16_WitnessCrash ==
  /\ ~Log
  /\ Len(delivered) = 1
  /\ delivered[1].sig = SIGSEGV
  /\ log = << >>
  /\ pc = "crashed"

(***************************************************************************)
(* Resolution and registration run once, before the loop (checked under    *)
(* Spec)                                                                   *)
(***************************************************************************)

(* the stage of main a position belongs to *)
Stage(p) ==
  IF p \in {"InitLogger", "SetupSignalHandlers", "log_starting"} THEN 0
  ELSE IF p \in ResolutionPcs THEN 1
  ELSE IF p \in {"server_new", "mounts_new", "fail_server", "fail_mounts", "configure"} THEN 2
  ELSE IF p \in RegistrationPcs THEN 3
  ELSE IF p \in {"loop_new", "attach", "log_started", "log_available", "log_stream_h264",
                 "log_stream_vp8", "loop_run"} THEN 4
  ELSE IF p = "in_loop" THEN 5
  ELSE IF p \in {"log_exit", "return"} THEN 6
  ELSE 7

(* no step, of main or of a handler, takes main back to an earlier stage,  *)
(* to an earlier directory or to an earlier catalog entry                  *)
NeverReExecuted ==
  [][/\ Stage(pc') >= Stage(pc)
     /\ (pc \in ResolutionPcs /\ pc' \in ResolutionPcs) => lcIdx' >= lcIdx
     /\ (pc = "reg_h264" /\ pc' = "reg_h264") => regIdx' \in {regIdx, regIdx + 1}
     /\ (pc = "reg_vp8" /\ pc' = "reg_vp8") => regIdx' \in {regIdx, regIdx + 1}
     /\ regIdx' # regIdx => delivered' = delivered
     /\ pc = "reg_vp8" => pc' # "reg_h264"
     /\ Stage(pc) > 1 => config' = config
    ]_vars

(* C17: configuration resolution and every registration run once, and the  *)
(* loop is not entered before all 2 x |catalog| registrations exist,       *)
(* whatever signals are delivered.                                         *)
C17_OnceBeforeLoop ==
  /\ NeverReExecuted
  /\ [](pc \in {"loop_run", "in_loop"} => Len(registry) = 2 * Len(createMountPoints))

(* what holds of the code: the same, when the registry was constructed *)
OnceBeforeLoopWhenConstructed ==
  /\ NeverReExecuted
  /\ []((pc \in {"loop_run", "in_loop"} /\ mountPoints = "ok") =>
          Len(registry) = 2 * Len(createMountPoints))

(* the loop is entered, signals having been handled on the way, with no    *)
(* registration in the registry                                            *)
LoopEnteredUnregistered ==
  /\ pc = "in_loop"
  /\ is_running
  /\ registry = << >>
  /\ mountPoints = "null"

(***************************************************************************)
(* The resolved port is never modified (checked under Spec)                *)
(***************************************************************************)

(* what resolve() returns for the directory list: LoadConfig gives up at a *)
(* malformed file, otherwise the last valid port wins                      *)
ResolvedPort ==
  IF HasMalformed(configDirs) THEN DefaultPort ELSE LastValidPort(configDirs, DefaultPort)

(* log lines of main that show the port *)
PortMsgs == {i \in 1..Len(log) : log[i].msg \in {"started", "stream_h264", "stream_vp8"}}

(* C18: after resolve() returns no step modifies the configuration's port: *)
(* the service handed to the server, the port it binds and the port shown  *)
(* in the startup log lines all equal the value resolve() returned.        *)
C18_PortFrozenAfterResolve ==
  /\ [][Stage(pc) > 1 => config' = config]_vars
  /\ []((Stage(pc) > 1 /\ Stage(pc) < 7) => config = ResolvedPort)
  /\ [](service # << >> => service = to_string(ResolvedPort))
  /\ [](Stage(pc) \in {5, 6} => boundPort = ResolvedPort)
  /\ [](boundPort # 0 => boundPort = ResolvedPort)
  /\ [](\A i \in PortMsgs : log[i].arg = ResolvedPort)
  /\ [](Stage(pc) \in {5, 6} => \E i \in PortMsgs : log[i].msg = "started")

C18_Witness ==
  /\ ExitedZero
  /\ ResolvedPort # DefaultPort
  /\ boundPort = ResolvedPort
  /\ config = ResolvedPort
  /\ Len(delivered) = 2
  /\ delivered[1].sig = SIGINT /\ delivered[1].at \in RegistrationPcs
  /\ delivered[2].sig = SIGTERM /\ delivered[2].at = "in_loop"
  /\ \E i \in PortMsgs : log[i].msg = "started" /\ log[i].arg = boundPort

(***************************************************************************)
(* Repeated termination requests (checked under FairSpec)                  *)
(***************************************************************************)

(* every signal delivered so far is of the termination class and reached   *)
(* the process in the loop or after it                                     *)
OnlyTermSinceLoop ==
  \A i \in 1..Len(delivered) :
    /\ delivered[i].sig \in {SIGINT, SIGTERM}
    /\ delivered[i].at \in {"in_loop", "log_exit", "return"}

(* C19: the stop request is idempotent: a termination-class signal handled *)
(* while the loop runs or after it was asked to stop makes one shutdown    *)
(* log call and leaves the loop stopped, and changes nothing else; with    *)
(* any number of them the process exits with status 0 after exactly one    *)
(* normal-exit message and one shutdown message for each signal.           *)
C19_StopIdempotent ==
  /\ [][(HandlerStep /\ LastSig \in {SIGINT, SIGTERM}
           /\ pc \in {"in_loop", "log_exit", "return"}) =>
          /\ log' = Append(log, Entry("info", "shutting_down", LastSig, "", mainInLog))
          /\ ~is_running'
          /\ UNCHANGED << pc, Log, g_mainLoop, handlers, mainInLog, exitCode,
                          cfgVars, srvVars, inputVars >>
       ]_vars
  /\ []((OnlyTermSinceLoop /\ Len(delivered) >= 1) =>
          /\ Cardinality(ShutdownMsgs) = Len(delivered)
          /\ pc \in {"in_loop", "log_exit", "return", "exited"}
          /\ pc = "in_loop" => ~is_running
          /\ pc \in {"in_loop", "log_exit"} => ExitMsgs = {}
          /\ pc \in {"return", "exited"} => Cardinality(ExitMsgs) = 1
          /\ pc = "exited" => exitCode = << 0 >>)
  /\ ((OnlyTermSinceLoop /\ Len(delivered) >= 2) ~> (ExitedZero \/ ~OnlyTermSinceLoop))

C19_Witness ==
  /\ ExitedZero
  /\ OnlyTermSinceLoop
  /\ Len(delivered) = 2
  /\ delivered[1].at = "in_loop"
  /\ delivered[2].at = "log_exit"
  /\ Cardinality(ShutdownMsgs) = 2
  /\ Cardinality(ExitMsgs) = 1

(* the second request arrives while the loop is still inside               *)
(* g_main_loop_run, already asked to stop                                  *)
C19_WitnessInLoop ==
  /\ ExitedZero
  /\ OnlyTermSinceLoop
  /\ Len(delivered) = 2
  /\ delivered[1].at = "in_loop"
  /\ delivered[2].at = "in_loop"
  /\ Cardinality(ShutdownMsgs) = 2
  /\ Cardinality(ExitMsgs) = 1

====
